---------------------------- MODULE Spec2Model ----------------------------
(***************************************************************************)
(* Model of the VeriFi backend: the forensic detectors                     *)
(* (Backend/fraud_detection.py, Backend/image_forensics.py) and the        *)
(* scan route with its cumulative scoring (Backend/main.py).               *)
(*                                                                         *)
(* Confidences are Python floats in the source.  Every confidence the      *)
(* code can produce is a multiple of 1/25500 (hundredths, or the ELA ramp  *)
(* 0.70 + d/255 * 0.26), and a mean is taken over at most four signals,    *)
(* so confidences are kept as exact integers in units of 1/ConfUnit with   *)
(* ConfUnit = 255 * 100 * 12.                                              *)
(***************************************************************************)
EXTENDS Integers, Sequences, FiniteSets, TLC

ConfUnit == 255 * 100 * 12

\* h/100 as a confidence
Hundredths(h) == h * 255 * 12

\* Python's None for a message, and the (None, 0.0) result of a detector
None == "None"

NoSignal == [msg |-> None, conf |-> 0]

Max(S) == CHOOSE x \in S : \A y \in S : y <= x

Min2(a, b) == IF a <= b THEN a ELSE b

Max2(a, b) == IF a >= b THEN a ELSE b

(***************************************************************************)
(* Text.  A str is a sequence of one-character strings.                    *)
(***************************************************************************)
Digits == <<"0", "1", "2", "3", "4", "5", "6", "7", "8", "9">>

IsDigit(c) == \E i \in 1..10 : Digits[i] = c

DigitVal(c) == (CHOOSE i \in 1..10 : Digits[i] = c) - 1

UpperLetters == {"A", "B", "C", "D", "E", "F", "X"}

\* the only lower-case letter of the sample alphabet
LowerLetters == {"x"}

IsLetter(c) == c \in UpperLetters \cup LowerLetters

\* str.upper(), one character
UpperChar(c) == IF c = "x" THEN "X" ELSE c

Upper(s) == [i \in 1..Len(s) |-> UpperChar(s[i])]

\* \w of the re module
IsWord(c) == IsDigit(c) \/ IsLetter(c) \/ c = "_"

\* [\s-]
IsSep(c) == c = " " \/ c = "-"

\* \b between positions i-1 and i of s (1-based; i in 1..Len(s)+1)
WordBoundary(s, i) ==
    LET before == i > 1 /\ IsWord(s[i - 1])
        after  == i <= Len(s) /\ IsWord(s[i])
    IN  before # after

\* \d{n} at s[i..i+n-1]
DigitsAt(s, i, n) == i + n - 1 <= Len(s) /\ \A k \in i..(i + n - 1) : IsDigit(s[k])

\* [A-Z]{n} at s[i..i+n-1]
UpperAt(s, i, n) == i + n - 1 <= Len(s) /\ \A k \in i..(i + n - 1) : s[k] \in UpperLetters

\* [\s-]? taking k characters (k = 0 or 1) at s[i]
OptSepAt(s, i, k) == k = 1 => (i <= Len(s) /\ IsSep(s[i]))

\* int() of the four digits at s[i..i+3]
Int4(s, i) ==
    DigitVal(s[i]) * 1000 + DigitVal(s[i + 1]) * 100
        + DigitVal(s[i + 2]) * 10 + DigitVal(s[i + 3])

(***************************************************************************)
(* fraud_detection.py                                                      *)
(***************************************************************************)
\* re.findall(r'\b[A-Z]{5}[0-9]{4}[A-Z]{1}\b', text.upper()) is non-empty
HasPAN(text) ==
    LET u == Upper(text)
    IN  \E i \in 1..Len(u) :
            /\ WordBoundary(u, i)
            /\ UpperAt(u, i, 5)
            /\ DigitsAt(u, i + 5, 4)
            /\ UpperAt(u, i + 9, 1)
            /\ WordBoundary(u, i + 10)

\* re.findall(r'\b\d{4}[\s-]?\d{4}[\s-]?\d{4}\b', text) is non-empty
HasAadhaar(text) ==
    \E i \in 1..Len(text) : \E k1 \in 0..1 : \E k2 \in 0..1 :
        /\ WordBoundary(text, i)
        /\ DigitsAt(text, i, 4)
        /\ OptSepAt(text, i + 4, k1)
        /\ DigitsAt(text, i + 4 + k1, 4)
        /\ OptSepAt(text, i + 8 + k1, k2)
        /\ DigitsAt(text, i + 8 + k1 + k2, 4)
        /\ WordBoundary(text, i + 12 + k1 + k2)

\* detect_pii(text) -> (detected, confidence)
detect_pii(text) ==
    IF text = <<>> THEN [detected |-> <<>>, conf |-> 0]
    ELSE LET d1 == IF HasPAN(text) THEN <<"PAN_DETECTED">> ELSE <<>>
             detected == IF HasAadhaar(text) THEN Append(d1, "AADHAAR_DETECTED") ELSE d1
             confidence == IF Len(detected) = 1 THEN Hundredths(75)
                           ELSE IF Len(detected) > 1 THEN Hundredths(95) ELSE 0
         IN  [detected |-> detected, conf |-> confidence]

\* re.search(r'(\d{4})', creation_date): position of the first match, 0 if none
YearMatch(creation_date) ==
    LET hits == {i \in 1..Len(creation_date) : DigitsAt(creation_date, i, 4)}
    IN  IF hits = {} THEN 0 ELSE CHOOSE i \in hits : \A j \in hits : i <= j

\* [int(y) for y in re.findall(r'\b(20\d{2})\b', extracted_text)], as a set
TextYears(extracted_text) ==
    LET hits == {i \in 1..Len(extracted_text) :
                    /\ WordBoundary(extracted_text, i)
                    /\ DigitsAt(extracted_text, i, 4)
                    /\ extracted_text[i] = "2"
                    /\ extracted_text[i + 1] = "0"
                    /\ WordBoundary(extracted_text, i + 4)}
    IN  {Int4(extracted_text, i) : i \in hits}

\* A plausible slip: the 0.92 tier starting one year late
GapConfidence_Strict(year_diff) == IF year_diff > 4 THEN Hundredths(92) ELSE Hundredths(78)

\* confidence = 0.92 if year_diff >= 4 else 0.78
GapConfidence(year_diff) == IF year_diff >= 4 THEN Hundredths(92) ELSE Hundredths(78)

MetadataMismatch(confidence) == [msg |-> "METADATA_MISMATCH", conf |-> confidence]

SuspiciousCreator == [msg |-> "SUSPICIOUS_CREATOR_TOOL", conf |-> Hundredths(85)]

\* The creator check, lines 45-48, and the final return of line 50
CreatorCheck(pdf) == IF pdf.creator_canva THEN SuspiciousCreator ELSE NoSignal

\* analyze_metadata(file_bytes, extracted_text) -> (message, confidence).
\* pdf describes what PdfReader makes of file_bytes: read ("ok" or "raises"),
\* has_meta, creation_date (the characters of /CreationDate, <<>> when the
\* key is missing) and creator_canva ('canva' in the lower-cased /Creator).
analyze_metadata(pdf, extracted_text) ==
    IF pdf.read = "raises" THEN NoSignal
    ELSE IF ~pdf.has_meta THEN NoSignal
    ELSE LET year_match == YearMatch(pdf.creation_date)
             pdf_year   == Int4(pdf.creation_date, year_match)
             text_years == TextYears(extracted_text)
         IN  IF year_match # 0 /\ text_years # {} /\ pdf_year > Max(text_years)
             THEN LET year_diff == pdf_year - Max(text_years)
                  IN  MetadataMismatch(GapConfidence(year_diff))
             ELSE CreatorCheck(pdf)

(***************************************************************************)
(* image_forensics.py                                                      *)
(*                                                                         *)
(* An image record img describes the bytes handed to Image.open:           *)
(*   raises     the first stage of the try block of detect_tampering that  *)
(*              raises when it is reached ("open", "info", "raw", "exif"), *)
(*              or "none";                                                 *)
(*   info       img.info, key -> kind of value: "absent", "other" (neither *)
(*              str nor bytes), "clean" (str/bytes without a tool name),   *)
(*              "tool" (str/bytes holding a tool name);                    *)
(*   raw_tool   a tool name occurs in file_bytes.lower();                  *)
(*   software_tool  the decoded EXIF Software tag holds a tool name;       *)
(*   ela_raises detect_ela's decoding or re-encoding raises;               *)
(*   max_diff   the maximum extremum of the ELA difference image.          *)
(* A call result is [msg, conf, exc, checks]: exc says an exception left   *)
(* the function, checks lists the stages entered, in order.                *)
(***************************************************************************)
PDF2IMAGE_AVAILABLE == TRUE

MaxPixel == 255

ElaThreshold == 30

InfoKeys == {"exif", "comment"}

Result(msg, conf, checks) == [msg |-> msg, conf |-> conf, exc |-> FALSE, checks |-> checks]

Raised(checks) == [msg |-> None, conf |-> 0, exc |-> TRUE, checks |-> checks]

\* Falling out of the try block without a return
FellThrough(checks) == [msg |-> "FellThrough", conf |-> 0, exc |-> FALSE, checks |-> checks]

\* min(0.96, 0.70 + (max_diff / 255) * 0.26)
ElaConfidence(max_diff) ==
    Min2(Hundredths(96), Hundredths(70) + max_diff * 26 * (ConfUnit \div (MaxPixel * 100)))

\* A plausible slip: the threshold itself counted as exceeding
ExceedsThreshold_Inclusive(max_diff) == max_diff >= ElaThreshold

\* max_diff > threshold
ExceedsThreshold(max_diff) == max_diff > ElaThreshold

\* The body of detect_ela's try block, lines 77-85
ElaBody(img) ==
    IF img.ela_raises THEN Raised(<<"ela">>)
    ELSE IF ExceedsThreshold(img.max_diff)
         THEN Result("ELA", ElaConfidence(img.max_diff), <<"ela">>)
         ELSE FellThrough(<<"ela">>)

\* except: pass, then return None, 0.0 (lines 86-87)
ElaExcept(r) == IF r.exc \/ r.msg = "FellThrough" THEN Result(None, 0, r.checks) ELSE r

\* detect_ela(file_bytes, threshold = 30.0)
detect_ela(img) == ElaExcept(ElaBody(img))

\* any(tool in str(value).lower()) for some str/bytes value of img.info
InfoHasTool(info) == \E k \in InfoKeys : info[k] = "tool"

\* Lines 60-66, the EXIF scan
ExifScan(img, checks) ==
    LET c == Append(checks, "exif")
    IN  IF img.info["exif"] = "absent" THEN FellThrough(c)
        ELSE IF img.raises = "exif" THEN Raised(c)
        ELSE IF img.software_tool THEN Result("SIG_EXIF", Hundredths(90), c)
        ELSE FellThrough(c)

\* Lines 53-58, the raw byte scan
RawScan(img, checks) ==
    LET c == Append(checks, "raw")
    IN  IF img.raises = "raw" THEN Raised(c)
        ELSE IF img.raw_tool THEN Result("SIG_RAW", Hundredths(87), c)
        ELSE ExifScan(img, c)

\* Lines 43-51, the scan of img.info
InfoScan(img, checks) ==
    LET c == Append(checks, "info")
    IN  IF img.raises = "info" THEN Raised(c)
        ELSE IF InfoHasTool(img.info) THEN Result("SIG_INFO", Hundredths(93), c)
        ELSE RawScan(img, c)

\* A plausible slip: the raw byte scan placed before the scan of img.info
ScanOrder_RawFirst(img, checks) ==
    LET c1 == Append(checks, "raw")
        c2 == Append(c1, "info")
    IN  IF img.raises = "raw" THEN Raised(c1)
        ELSE IF img.raw_tool THEN Result("SIG_RAW", Hundredths(87), c1)
        ELSE IF img.raises = "info" THEN Raised(c2)
        ELSE IF InfoHasTool(img.info) THEN Result("SIG_INFO", Hundredths(93), c2)
        ELSE ExifScan(img, c2)

\* The order of the checks after Image.open, lines 43-66
ScanOrder(img, checks) == InfoScan(img, checks)

\* The body of detect_tampering's try block, lines 41-66
TamperBody(img) ==
    IF img.raises = "open" THEN Raised(<<"open">>)
    ELSE ScanOrder(img, <<"open">>)

\* A plausible slip: no except clause, the exception leaves the function
TamperExcept_Propagate(r, img) ==
    IF r.msg = "FellThrough"
    THEN LET e == detect_ela(img)
         IN  [e EXCEPT !.checks = r.checks \o e.checks]
    ELSE r

\* except Exception: pass (line 67), then line 70
TamperExcept(r, img) ==
    IF r.exc \/ r.msg = "FellThrough"
    THEN LET e == detect_ela(img)
         IN  [e EXCEPT !.checks = r.checks \o e.checks]
    ELSE r

\* detect_tampering(file_bytes, filename).  file.name is "pdf" when the
\* lower-cased filename ends with ".pdf"; file.raster says whether
\* convert_from_bytes and the JPEG save of page one succeed; file.img is the
\* image that is analysed (the rasterised page for a PDF).
detect_tampering(file) ==
    IF file.name = "pdf" /\ PDF2IMAGE_AVAILABLE /\ file.raster = "raises"
    THEN Result(None, 0, <<>>)
    ELSE TamperExcept(TamperBody(file.img), file.img)

(***************************************************************************)
(* vector_store (search_duplicate, add_to_index): the duplicate index.     *)
(* The index is the sequence of the contents inserted so far; a content    *)
(* stands for the (text, perceptual hash) pair of one upload.              *)
(***************************************************************************)
DupSimilarities == {Hundredths(85)}

\* search_duplicate(text, img_hash) -> (is_dup, dup_score): the results the
\* index may give for content
search_duplicate(idx, content) ==
    IF \E i \in 1..Len(idx) : idx[i] = content
    THEN {[is_dup |-> TRUE, dup_score |-> sim] : sim \in DupSimilarities}
    ELSE {[is_dup |-> FALSE, dup_score |-> 0]}

\* add_to_index(text, img_hash)
add_to_index(idx, content) == Append(idx, content)

(***************************************************************************)
(* main.py, upload_scan: the cumulative scoring of lines 153-198.  A       *)
(* frame l holds the locals is_dup, dup_score, tamper, meta and pii.       *)
(***************************************************************************)
Anomaly(type, description, confidence) ==
    [type |-> type, description |-> description, confidence |-> confidence]

\* Lines 157-159
ScoreTamper(l) ==
    IF l.tamper.msg # None
    THEN [fraud_score |-> Max2(0, 90),
          anomalies |-> <<Anomaly("Forensic Tampering", l.tamper.msg, l.tamper.conf)>>]
    ELSE [fraud_score |-> 0, anomalies |-> <<>>]

\* Lines 162-164
ScoreMeta(s, l) ==
    IF l.meta.msg # None
    THEN [fraud_score |-> Max2(s.fraud_score, 85),
          anomalies |-> Append(s.anomalies,
                               Anomaly("Metadata Fraud", l.meta.msg, l.meta.conf))]
    ELSE s

\* A plausible slip: elif, the duplicate rule skipped after a metadata signal
ScoreDup_Elif(s, l) ==
    IF l.is_dup /\ l.meta.msg = None
    THEN [fraud_score |-> 100,
          anomalies |-> Append(s.anomalies,
                               Anomaly("Duplicate Discovery", "match found", l.dup_score))]
    ELSE s

\* Lines 167-170
ScoreDup(s, l) ==
    IF l.is_dup
    THEN [fraud_score |-> 100,
          anomalies |-> Append(s.anomalies,
                               Anomaly("Duplicate Discovery", "match found", l.dup_score))]
    ELSE s

\* A plausible slip: the bump applied whatever the score
PiiBump_Always(fraud_score) == fraud_score + 20

\* Line 176: if fraud_score < 30: fraud_score += 20
PiiBump(fraud_score) == IF fraud_score < 30 THEN fraud_score + 20 ELSE fraud_score

\* Lines 173-176
ScorePii(s, l) ==
    IF l.pii.detected # <<>>
    THEN [fraud_score |-> PiiBump(s.fraud_score),
          anomalies |-> Append(s.anomalies,
                               Anomaly("PII Detected", l.pii.detected, l.pii.conf))]
    ELSE s

\* A plausible slip: the PII rule moved in front of the forensic rules
CumulativeScore_PiiFirst(l) ==
    LET p == ScorePii([fraud_score |-> 0, anomalies |-> <<>>], l)
        t == ScoreTamper(l)
        pt == [fraud_score |-> Max2(p.fraud_score, t.fraud_score),
               anomalies |-> p.anomalies \o t.anomalies]
    IN  ScoreDup(ScoreMeta(pt, l), l)

\* Lines 153-176, the four rules in their order
CumulativeScore(l) == ScorePii(ScoreDup(ScoreMeta(ScoreTamper(l), l), l), l)

\* A plausible slip: the two lower labels exchanged
Severity_Swapped(fraud_score) ==
    IF fraud_score >= 70 THEN "CRITICAL" ELSE IF fraud_score >= 30 THEN "SAFE" ELSE "WARNING"

\* Line 179
Severity(fraud_score) ==
    IF fraud_score >= 70 THEN "CRITICAL" ELSE IF fraud_score >= 30 THEN "WARNING" ELSE "SAFE"

RECURSIVE SumConfidence(_)
SumConfidence(anomalies) ==
    IF anomalies = <<>> THEN 0
    ELSE anomalies[1].confidence + SumConfidence(Tail(anomalies))

\* A plausible slip: the average of lines 184-186 left out
OverallConfidence_Flag(anomalies) == IF anomalies # <<>> THEN Hundredths(100) ELSE 0

\* Lines 183-186
OverallConfidence(anomalies) ==
    IF anomalies # <<>> THEN SumConfidence(anomalies) \div Len(anomalies) ELSE 0

\* A plausible slip: the guard of line 180 left out
ShouldInsert_Always(is_dup) == TRUE

\* Line 180: if not is_dup: add_to_index(text, img_hash)
ShouldInsert(is_dup) == ~is_dup

\* Lines 188-198, the fields of result that the scoring decides
ScanResult(l) ==
    LET s == CumulativeScore(l)
    IN  [fraud_score |-> Min2(100, s.fraud_score),
         severity |-> Severity(s.fraud_score),
         anomalies |-> s.anomalies,
         confidence |-> OverallConfidence(s.anomalies)]

(***************************************************************************)
(* State.                                                                  *)
(*   metaIn, metaOut      one call of analyze_metadata                     *)
(*   tamperIn, tamperOut  one call of detect_tampering                     *)
(*   elaPrev, elaCur      the last two calls of detect_ela                 *)
(*   pc, running, frame, index, db   the scan route of main.py             *)
(***************************************************************************)
VARIABLES metaIn, metaOut, tamperIn, tamperOut, elaPrev, elaCur,
          pc, running, frame, index, db

vars == <<metaIn, metaOut, tamperIn, tamperOut, elaPrev, elaCur,
          pc, running, frame, index, db>>

metaVars == <<metaIn, metaOut>>

tamperVars == <<tamperIn, tamperOut>>

elaVars == <<elaPrev, elaCur>>

scanVars == <<pc, running, frame, index, db>>

\* A call's input and output are one-element sequences, empty while the
\* call has not been made
Pending == <<>>

(***************************************************************************)
(* Documents for analyze_metadata: a creation year and the years printed   *)
(* in the text are chosen, written out as the PDF and the text would hold  *)
(* them, and the code reads them back.                                     *)
(***************************************************************************)
TextYearSpan == 1

PdfYearSpan == 5

MaxTextYears == 2

TextYearSet == 2020..(2020 + TextYearSpan)

PdfYearSet == (2020 - 1)..(2020 + PdfYearSpan)

YearChars(y) ==
    << Digits[((y \div 1000) % 10) + 1], Digits[((y \div 100) % 10) + 1],
       Digits[((y \div 10) % 10) + 1], Digits[(y % 10) + 1] >>

\* /CreationDate as PDF writers store it, D:YYYYMMDD...; year 0: key missing
FormatDate(y) == IF y = 0 THEN <<>> ELSE <<"D", ":">> \o YearChars(y) \o <<"0", "1", "0", "1">>

RECURSIVE JoinYears(_)
JoinYears(years) ==
    IF years = <<>> THEN <<>>
    ELSE IF Len(years) = 1 THEN YearChars(years[1])
    ELSE YearChars(years[1]) \o <<" ">> \o JoinYears(Tail(years))

\* Two numbers that hold 2099 but are not a year: 12099 and 20995
Decoys == <<"x", " ", "1", "2", "0", "9", "9", " ", "2", "0", "9", "9", "5">>

FormatText(years, decoy) ==
    IF decoy THEN JoinYears(years) \o (IF years = <<>> THEN <<>> ELSE <<" ">>) \o Decoys
    ELSE JoinYears(years)

YearSeqs == UNION {[1..n -> TextYearSet] : n \in 0..MaxTextYears}

MetaInputs ==
    [read : {"ok", "raises"}, has_meta : BOOLEAN, date_year : PdfYearSet \cup {0},
     years : YearSeqs, decoy : BOOLEAN, creator_canva : BOOLEAN]

PdfOf(in) ==
    [read |-> in.read, has_meta |-> in.has_meta,
     creation_date |-> FormatDate(in.date_year), creator_canva |-> in.creator_canva]

MetaIdle == metaIn = Pending /\ metaOut = Pending

TamperIdle == tamperIn = Pending /\ tamperOut = Pending

ElaIdle == elaPrev = Pending /\ elaCur = Pending

ScanIdle == pc = <<>> /\ running = {} /\ frame = <<>> /\ index = <<>> /\ db = <<>>

InitMeta ==
    /\ metaIn \in {<<in>> : in \in MetaInputs}
    /\ metaOut = Pending
    /\ TamperIdle /\ ElaIdle /\ ScanIdle

AnalyzeMetadata ==
    /\ metaOut = Pending
    /\ metaOut' = <<analyze_metadata(PdfOf(metaIn[1]),
                                      FormatText(metaIn[1].years, metaIn[1].decoy))>>
    /\ UNCHANGED <<metaIn, tamperVars, elaVars, scanVars>>

NextMeta == AnalyzeMetadata

SpecMeta == InitMeta /\ [][NextMeta]_vars

(***************************************************************************)
(* Files for detect_tampering.  The EXIF block is the bytes value          *)
(* img.info["exif"], so a tool name in its Software tag is a tool name in  *)
(* that value; an image that Image.open rejects has no info dictionary and *)
(* is rejected by detect_ela's Image.open as well.                         *)
(***************************************************************************)
ElaSamples == {0, ElaThreshold, ElaThreshold + 1, MaxPixel}

InfoDicts ==
    {d \in [InfoKeys -> {"absent", "other", "clean", "tool"}] : d["exif"] # "other"}

Images ==
    {i \in [raises : {"none", "open", "info", "raw", "exif"}, info : InfoDicts,
            raw_tool : BOOLEAN, software_tool : BOOLEAN, ela_raises : BOOLEAN,
            max_diff : ElaSamples] :
        /\ i.software_tool => i.info["exif"] = "tool"
        /\ i.raises = "exif" => i.info["exif"] # "absent"
        /\ i.raises = "open" =>
              (i.ela_raises /\ ~i.software_tool /\ \A k \in InfoKeys : i.info[k] = "absent")
        /\ i.ela_raises => i.max_diff = 0}

TamperInputs ==
    {f \in [name : {"pdf", "img"}, raster : {"ok", "raises"}, img : Images] :
        f.name = "img" => f.raster = "ok"}

InitTamper ==
    /\ tamperIn \in {<<f>> : f \in TamperInputs}
    /\ tamperOut = Pending
    /\ MetaIdle /\ ElaIdle /\ ScanIdle

DetectTampering ==
    /\ tamperOut = Pending
    /\ tamperOut' = <<detect_tampering(tamperIn[1])>>
    /\ UNCHANGED <<tamperIn, metaVars, elaVars, scanVars>>

NextTamper == DetectTampering

SpecTamper == InitTamper /\ [][NextTamper]_vars

(***************************************************************************)
(* detect_ela over every max_diff of the 0..255 scale; the last two calls  *)
(* are kept so that two results can be compared.                           *)
(***************************************************************************)
InitEla ==
    /\ ElaIdle
    /\ MetaIdle /\ TamperIdle /\ ScanIdle

DetectEla ==
    \E d \in 0..MaxPixel :
        /\ elaPrev' = elaCur
        /\ elaCur' = <<[max_diff |-> d,
                        out |-> detect_ela([ela_raises |-> FALSE, max_diff |-> d])]>>
        /\ UNCHANGED <<metaVars, tamperVars, scanVars>>

NextEla == DetectEla

SpecEla == InitEla /\ [][NextEla]_vars

(***************************************************************************)
(* The scan route.  upload_scan is a coroutine on the server's event       *)
(* loop: it suspends only at "await file.read()" (line 128), and from      *)
(* there to its return (lines 129-200) it runs without yielding the loop.  *)
(* running is the set holding the request whose coroutine has the loop.    *)
(*   pc[r]   "idle", "reading" (suspended in file.read()), "scoring"       *)
(*           (lines 129-149 done), "respond" (lines 153-199 done), "done"  *)
(*   frame[r]  the locals of the coroutine of r, a one-element sequence    *)
(***************************************************************************)
NumRequests == 2

NumContents == 2

Requests == 1..NumRequests

Contents == 1..NumContents

\* Images, PDF metadata and texts of the uploads that are scanned
CleanImage ==
    [raises |-> "none", info |-> [k \in InfoKeys |-> "absent"], raw_tool |-> FALSE,
     software_tool |-> FALSE, ela_raises |-> FALSE, max_diff |-> 0]

ScanImages ==
    { CleanImage,
      [CleanImage EXCEPT !.info = [k \in InfoKeys |-> IF k = "comment" THEN "tool" ELSE "absent"]],
      [CleanImage EXCEPT !.max_diff = ElaThreshold + 1] }

ScanPdfs ==
    { [read |-> "raises", has_meta |-> FALSE, creation_date |-> <<>>, creator_canva |-> FALSE],
      [read |-> "ok", has_meta |-> TRUE, creation_date |-> FormatDate(2024),
       creator_canva |-> FALSE] }

PanText == <<"A", "B", "C", "D", "E", "1", "2", "3", "4", "F">>

AadhaarText == <<"1", "2", "3", "4", "-", "5", "6", "7", "8", " ", "9", "0", "1", "2">>

ScanTexts ==
    { <<>>,
      PanText,
      YearChars(2020),
      YearChars(2023) \o <<" ">> \o PanText \o <<" ">> \o AadhaarText }

Uploads ==
    {[file |-> [name |-> IF p.read = "ok" THEN "pdf" ELSE "img", raster |-> "ok", img |-> i],
      pdf |-> p, text |-> t] : i \in ScanImages, p \in ScanPdfs, t \in ScanTexts}

InitScan ==
    /\ pc = [r \in Requests |-> "idle"]
    /\ running = {}
    /\ frame = [r \in Requests |-> <<>>]
    /\ index = <<>>
    /\ db = [r \in Requests |-> <<>>]
    /\ MetaIdle /\ TamperIdle /\ ElaIdle

\* The event loop can start or resume a coroutine
LoopFree == running = {}

\* The coroutine of s, suspended in file.read(), can be resumed
CanResume(s) == pc[s] = "reading" /\ LoopFree

\* Lines 122-128: the request arrives with its content, the coroutine runs
\* to "await file.read()" and suspends
Receive(r) ==
    /\ pc[r] = "idle" /\ LoopFree
    /\ \E c \in Contents : frame' = [frame EXCEPT ![r] = <<[content |-> c]>>]
    /\ pc' = [pc EXCEPT ![r] = "reading"]
    /\ UNCHANGED <<running, index, db, metaVars, tamperVars, elaVars>>

\* Lines 128-149: file.read() completes; text extraction, the duplicate
\* lookup and the three detectors
Resume(r) ==
    /\ CanResume(r)
    /\ \E u \in Uploads : \E found \in search_duplicate(index, frame[r][1].content) :
          frame' = [frame EXCEPT ![r] =
                      <<[content |-> frame[r][1].content,
                         is_dup |-> found.is_dup,
                         dup_score |-> found.dup_score,
                         tamper |-> detect_tampering(u.file),
                         meta |-> analyze_metadata(u.pdf, u.text),
                         pii |-> detect_pii(u.text)]>>]
    /\ running' = {r}
    /\ pc' = [pc EXCEPT ![r] = "scoring"]
    /\ UNCHANGED <<index, db, metaVars, tamperVars, elaVars>>

\* Lines 153-199: scoring, severity, the conditional insert, the overall
\* confidence and the store of the result
Conclude(r) ==
    /\ pc[r] = "scoring" /\ running = {r}
    /\ index' = IF ShouldInsert(frame[r][1].is_dup)
                 THEN add_to_index(index, frame[r][1].content) ELSE index
    /\ db' = [db EXCEPT ![r] = <<ScanResult(frame[r][1])>>]
    /\ pc' = [pc EXCEPT ![r] = "respond"]
    /\ UNCHANGED <<running, frame, metaVars, tamperVars, elaVars>>

\* Line 200: the coroutine returns, its locals are gone and the loop is free
Respond(r) ==
    /\ pc[r] = "respond" /\ running = {r}
    /\ running' = {}
    /\ frame' = [frame EXCEPT ![r] = <<>>]
    /\ pc' = [pc EXCEPT ![r] = "done"]
    /\ UNCHANGED <<index, db, metaVars, tamperVars, elaVars>>

Next ==
    \E r \in Requests : Receive(r) \/ Resume(r) \/ Conclude(r) \/ Respond(r)

Init == InitScan

Spec == Init /\ [][Next]_vars

(***************************************************************************)
(* Properties of analyze_metadata (SpecMeta)                               *)
(***************************************************************************)
MetaDone == metaOut # Pending

\* The document has metadata with a creation year, and the text shows a year
MetaGapDefined ==
    /\ metaIn[1].read = "ok" /\ metaIn[1].has_meta
    /\ metaIn[1].date_year # 0 /\ metaIn[1].years # <<>>

\* (hidden creation year) - (maximum visible 20xx year)
MetaGap ==
    metaIn[1].date_year - Max({metaIn[1].years[i] : i \in 1..Len(metaIn[1].years)})

MetaGapTiers ==
    /\ MetaGap >= 4 =>
          metaOut[1] = [msg |-> "METADATA_MISMATCH", conf |-> Hundredths(92)]
    /\ MetaGap \in 1..3 =>
          metaOut[1] = [msg |-> "METADATA_MISMATCH", conf |-> Hundredths(78)]

\* C6 as stated: analyze_metadata returns one signal chosen by the gap:
\* gap >= 4 gives the mismatch at 0.92, gap 1..3 the mismatch at 0.78, and a
\* gap of 0 or negative gives no signal at all.
C6_GapZeroGivesNoSignal ==
    (MetaDone /\ MetaGapDefined) =>
        /\ MetaGapTiers
        /\ MetaGap <= 0 => metaOut[1] = [msg |-> None, conf |-> 0]

\* C6 amended: gap >= 4 gives the mismatch at 0.92 and gap 1..3 the mismatch
\* at 0.78, the creator check not being evaluated; a gap of 0 or negative
\* gives no mismatch signal, and the result is then the creator check's:
\* the suspicious-creator signal at 0.85 when /Creator holds 'canva',
\* otherwise no signal.
C6_GapTiersThenCreator ==
    (MetaDone /\ MetaGapDefined) =>
        /\ MetaGapTiers
        /\ MetaGap <= 0 =>
              metaOut[1] = IF metaIn[1].creator_canva
                           THEN [msg |-> "SUSPICIOUS_CREATOR_TOOL", conf |-> Hundredths(85)]
                           ELSE [msg |-> None, conf |-> 0]

\* A document four years older in print than in its metadata, made with
\* Canva, next to numbers that only look like years: the mismatch wins
C6_Witness ==
    /\ MetaDone /\ MetaGapDefined
    /\ MetaGap = 4 /\ metaIn[1].creator_canva /\ metaIn[1].decoy
    /\ Len(metaIn[1].years) = 2
    /\ metaOut[1].msg = "METADATA_MISMATCH"

(***************************************************************************)
(* Properties of detect_tampering (SpecTamper)                             *)
(***************************************************************************)
TamperDone == tamperOut # Pending

TamperImg == tamperIn[1].img

\* The file reaches the try block: it is no PDF whose rasterisation failed
TamperAnalysed == ~(tamperIn[1].name = "pdf" /\ tamperIn[1].raster = "raises")

Ran(stage) == \E i \in 1..Len(tamperOut[1].checks) : tamperOut[1].checks[i] = stage

\* C5: for a decodable image the checks are made in a fixed order and the
\* first match wins: a tool name in a str/bytes entry of img.info gives 0.93
\* whatever the raw bytes or the EXIF hold; otherwise a tool name in the raw
\* bytes gives 0.87; otherwise one in the EXIF Software tag gives 0.90; and
\* error-level analysis runs only when none of the three matched.
C5_FirstMatchWins ==
    (TamperDone /\ TamperAnalysed) =>
        /\ (TamperImg.raises \notin {"open", "info"} /\ InfoHasTool(TamperImg.info)) =>
              (tamperOut[1].msg = "SIG_INFO" /\ tamperOut[1].conf = Hundredths(93))
        /\ (TamperImg.raises \notin {"open", "info", "raw"}
                /\ ~InfoHasTool(TamperImg.info) /\ TamperImg.raw_tool) =>
              (tamperOut[1].msg = "SIG_RAW" /\ tamperOut[1].conf = Hundredths(87))
        /\ (TamperImg.raises = "none" /\ ~InfoHasTool(TamperImg.info)
                /\ ~TamperImg.raw_tool /\ TamperImg.software_tool) =>
              (tamperOut[1].msg = "SIG_EXIF" /\ tamperOut[1].conf = Hundredths(90))
        /\ Ran("ela") => tamperOut[1].msg \in {None, "ELA"}
        /\ (Ran("ela") /\ TamperImg.raises = "none") =>
              (~InfoHasTool(TamperImg.info) /\ ~TamperImg.raw_tool
                  /\ ~TamperImg.software_tool)

\* A file with a tool name in img.info, in the raw bytes and in the EXIF
\* Software tag reports the img.info signal, and ELA is not run
C5_Witness ==
    /\ TamperDone /\ TamperAnalysed
    /\ TamperImg.raises = "none"
    /\ TamperImg.info["comment"] = "tool" /\ TamperImg.raw_tool /\ TamperImg.software_tool
    /\ tamperOut[1].conf = Hundredths(93)
    /\ ~Ran("ela")

\* The check entered right after stage in the call, "" when it was the last
NextCheck(stage) ==
    LET c == tamperOut[1].checks
        i == CHOOSE k \in 1..Len(c) : c[k] = stage
    IN  IF i < Len(c) THEN c[i + 1] ELSE ""

RaisedAt(stage) == TamperImg.raises = stage /\ Ran(stage)

\* C7 as stated: an exception at any stage is swallowed and control goes on
\* with the next check in the order info, raw, EXIF, ELA; a file that cannot
\* be decoded but holds a tool name in its raw bytes still gets the raw byte
\* scan; no exception reaches the caller.
C7_NextCheckAfterException ==
    (TamperDone /\ TamperAnalysed) =>
        /\ ~tamperOut[1].exc
        /\ RaisedAt("open") => NextCheck("open") = "info"
        /\ RaisedAt("info") => NextCheck("info") = "raw"
        /\ RaisedAt("raw") => NextCheck("raw") = "exif"
        /\ RaisedAt("exif") => NextCheck("exif") = "ela"
        /\ (RaisedAt("open") /\ TamperImg.raw_tool) => Ran("raw")

\* C7 amended: an exception at any stage of the signature checks (opening
\* the image, the img.info scan, the raw byte scan, the EXIF scan) is
\* swallowed and control goes straight to error-level analysis, the
\* signature checks after the failing stage being skipped; a file that cannot
\* be decoded gets no raw byte scan and yields no signal even when its raw
\* bytes hold a tool name; a failure of ELA gives (None, 0.0); no exception
\* reaches the caller.
C7_ExceptionGoesToEla ==
    TamperDone =>
        /\ ~tamperOut[1].exc
        /\ TamperAnalysed =>
              /\ \A stage \in {"open", "info", "raw", "exif"} :
                    RaisedAt(stage) => NextCheck(stage) = "ela"
              /\ RaisedAt("open") =>
                    (tamperOut[1].checks = <<"open", "ela">> /\ tamperOut[1].msg = None
                        /\ tamperOut[1].conf = 0)
              /\ (Ran("ela") /\ TamperImg.ela_raises) =>
                    (tamperOut[1].msg = None /\ tamperOut[1].conf = 0)

\* A file that cannot be decoded and holds a tool name in its raw bytes:
\* the raw byte scan is skipped and the result is no signal
C7_Witness ==
    /\ TamperDone /\ TamperAnalysed
    /\ TamperImg.raises = "open" /\ TamperImg.raw_tool
    /\ ~Ran("raw") /\ Ran("ela")
    /\ tamperOut[1].msg = None /\ ~tamperOut[1].exc

(***************************************************************************)
(* Properties of detect_ela (SpecEla)                                      *)
(***************************************************************************)
ElaEmitted(call) == call.out.msg = "ELA"

\* min(0.96, 0.70 + (d/255) * 0.26), in 25500ths
ElaFormula(call) ==
    call.out.conf =
        Min2(96 * 255, 70 * 255 + 26 * call.max_diff) * (ConfUnit \div (255 * 100))

ElaCallOK(call) ==
    /\ ElaEmitted(call) <=> call.max_diff > 30
    /\ ElaEmitted(call) =>
          /\ ElaFormula(call)
          /\ call.out.conf >= Hundredths(70) /\ call.out.conf <= Hundredths(96)
    /\ call.max_diff = 255 => call.out.conf = Hundredths(96)
    /\ ~ElaEmitted(call) => (call.out.msg = None /\ call.out.conf = 0)
    /\ ~call.out.exc

\* C9: for every max_diff in 0..255 detect_ela emits the pixel-tamper signal
\* exactly when max_diff exceeds 30; the confidence is
\* min(0.96, 0.70 + (max_diff/255)*0.26), non-decreasing in max_diff, within
\* [0.70, 0.96] and 0.96 at 255; otherwise the result is (None, 0.0).
C9_ElaThresholdAndRamp ==
    /\ elaCur # Pending => ElaCallOK(elaCur[1])
    /\ (elaPrev # Pending /\ elaCur # Pending
            /\ ElaEmitted(elaPrev[1]) /\ ElaEmitted(elaCur[1])
            /\ elaPrev[1].max_diff <= elaCur[1].max_diff) =>
          elaPrev[1].out.conf <= elaCur[1].out.conf

\* The threshold value itself gives no signal and the next value does
C9_Witness ==
    /\ elaPrev # Pending /\ elaCur # Pending
    /\ elaPrev[1].max_diff = 30 /\ ~ElaEmitted(elaPrev[1])
    /\ elaCur[1].max_diff = 31 /\ ElaEmitted(elaCur[1])
    /\ elaCur[1].out.conf > Hundredths(70)

(***************************************************************************)
(* Properties of upload_scan (Spec)                                        *)
(***************************************************************************)
\* Lines 153-199 have run for r and its locals are still there
Scored(r) == pc[r] = "respond"

HasTamper(r) == frame[r][1].tamper.msg # None

HasMeta(r) == frame[r][1].meta.msg # None

HasDup(r) == frame[r][1].is_dup

HasPii(r) == frame[r][1].pii.detected # <<>>

\* The score the forensic signals give when no PII is found
ForensicScore(r) ==
    IF HasDup(r) THEN 100 ELSE IF HasTamper(r) THEN 90 ELSE IF HasMeta(r) THEN 85 ELSE 0

\* C1: the PII rule adds 20 only while the score is below 30: with PII and
\* at least one of tamper, metadata, duplicate the score is the one the same
\* signals give without PII (tamper + PII stays at 90); PII alone gives
\* exactly 20 and SAFE.
C1_PiiOnlyBelowThirty ==
    \A r \in Requests : Scored(r) =>
        /\ ~HasPii(r) => db[r][1].fraud_score = ForensicScore(r)
        /\ (HasPii(r) /\ (HasTamper(r) \/ HasMeta(r) \/ HasDup(r))) =>
              db[r][1].fraud_score = ForensicScore(r)
        /\ (HasPii(r) /\ ~HasTamper(r) /\ ~HasMeta(r) /\ ~HasDup(r)) =>
              (db[r][1].fraud_score = 20 /\ db[r][1].severity = "SAFE")

\* A metadata mismatch together with PII: the score stays at 85
C1_Witness ==
    \E r \in Requests :
        /\ Scored(r) /\ HasPii(r) /\ HasMeta(r) /\ ~HasTamper(r) /\ ~HasDup(r)
        /\ db[r][1].fraud_score = 85

DuplicateAnomalies(r) ==
    {i \in 1..Len(db[r][1].anomalies) : db[r][1].anomalies[i].type = "Duplicate Discovery"}

\* C2: whenever the lookup returns is_dup the score is exactly 100 and the
\* severity CRITICAL, whatever the tamper, metadata and PII signals, and the
\* duplicate signal carries the index's similarity as its confidence.
C2_DuplicateOverrides ==
    \A r \in Requests : (Scored(r) /\ HasDup(r)) =>
        /\ db[r][1].fraud_score = 100
        /\ db[r][1].severity = "CRITICAL"
        /\ Cardinality(DuplicateAnomalies(r)) = 1
        /\ \A i \in DuplicateAnomalies(r) :
              db[r][1].anomalies[i].confidence = frame[r][1].dup_score

\* A duplicate at similarity 0.85 with a metadata mismatch and PII
C2_Witness ==
    \E r \in Requests :
        /\ Scored(r) /\ HasDup(r) /\ HasMeta(r) /\ HasPii(r) /\ ~HasTamper(r)
        /\ frame[r][1].dup_score = Hundredths(85)
        /\ db[r][1].fraud_score = 100

Stored(r) == db[r] # <<>>

\* C3: in every stored verdict the severity is decided by the reported score
\* alone: CRITICAL exactly when it is >= 70, WARNING exactly when it is in
\* 30..69, SAFE exactly when it is below 30; the score is in 0..100 and the
\* severity is one of the three labels.
C3_SeverityFromScore ==
    \A r \in Requests : Stored(r) =>
        /\ db[r][1].fraud_score \in 0..100
        /\ db[r][1].severity \in {"SAFE", "WARNING", "CRITICAL"}
        /\ db[r][1].severity = "CRITICAL" <=> db[r][1].fraud_score >= 70
        /\ db[r][1].severity = "WARNING" <=>
              (db[r][1].fraud_score >= 30 /\ db[r][1].fraud_score < 70)
        /\ db[r][1].severity = "SAFE" <=> db[r][1].fraud_score < 30

\* One verdict SAFE at 20 and another CRITICAL at 85
C3_Witness ==
    \E r, q \in Requests :
        /\ Stored(r) /\ db[r][1].fraud_score = 20 /\ db[r][1].severity = "SAFE"
        /\ Stored(q) /\ db[q][1].fraud_score = 85 /\ db[q][1].severity = "CRITICAL"

\* The confidences of the signals the detectors and the lookup reported
SignalConfidences(r) ==
    (IF HasTamper(r) THEN <<frame[r][1].tamper.conf>> ELSE <<>>)
        \o (IF HasMeta(r) THEN <<frame[r][1].meta.conf>> ELSE <<>>)
        \o (IF HasDup(r) THEN <<frame[r][1].dup_score>> ELSE <<>>)
        \o (IF HasPii(r) THEN <<frame[r][1].pii.conf>> ELSE <<>>)

RECURSIVE SumSeq(_)
SumSeq(q) == IF q = <<>> THEN 0 ELSE q[1] + SumSeq(Tail(q))

\* C4: the overall confidence is the arithmetic mean of the confidences of
\* exactly the signals recorded in the anomalies list (the PII signal also
\* when its +20 was suppressed), 0.0 when none was recorded, and within
\* [0, 1].
C4_ConfidenceIsMean ==
    \A r \in Requests : Scored(r) =>
        /\ Len(db[r][1].anomalies) = Len(SignalConfidences(r))
        /\ \A i \in 1..Len(db[r][1].anomalies) :
              db[r][1].anomalies[i].confidence = SignalConfidences(r)[i]
        /\ db[r][1].confidence * Len(SignalConfidences(r)) = SumSeq(SignalConfidences(r))
        /\ SignalConfidences(r) = <<>> => db[r][1].confidence = 0
        /\ db[r][1].confidence >= 0 /\ db[r][1].confidence <= ConfUnit

\* An ELA signal, a duplicate and PII whose +20 was suppressed: three
\* confidences, mean below 1.0
C4_Witness ==
    \E r \in Requests :
        /\ Scored(r) /\ HasTamper(r) /\ HasDup(r) /\ HasPii(r) /\ ~HasMeta(r)
        /\ frame[r][1].tamper.msg = "ELA"
        /\ Len(db[r][1].anomalies) = 3
        /\ db[r][1].fraud_score = 100
        /\ db[r][1].confidence < ConfUnit /\ db[r][1].confidence > Hundredths(75)

AnomalyRank(type) ==
    CASE type = "Forensic Tampering" -> 1
      [] type = "Metadata Fraud" -> 2
      [] type = "Duplicate Discovery" -> 3
      [] type = "PII Detected" -> 4

\* C10: the only scores upload_scan produces are 0, 20, 85, 90 and 100, so
\* no verdict has a score in 30..69 or the severity WARNING, and the
\* anomalies are always in the order tamper, metadata, duplicate, PII.
C10_ScoreValuesAndOrder ==
    \A r \in Requests : Stored(r) =>
        /\ db[r][1].fraud_score \in {0, 20, 85, 90, 100}
        /\ db[r][1].severity # "WARNING"
        /\ \A i, j \in 1..Len(db[r][1].anomalies) :
              i < j => AnomalyRank(db[r][1].anomalies[i].type)
                         < AnomalyRank(db[r][1].anomalies[j].type)

\* A verdict with all four anomalies
C10_Witness ==
    \E r \in Requests :
        /\ Stored(r) /\ Len(db[r][1].anomalies) = 4
        /\ db[r][1].anomalies[1].type = "Forensic Tampering"
        /\ db[r][1].anomalies[4].type = "PII Detected"

\* r has looked up the index, found no duplicate, and has not inserted yet
InWindow(r) == pc[r] = "scoring" /\ ~frame[r][1].is_dup

InIndex(content) == \E i \in 1..Len(index) : index[i] = content

\* The verdicts stored for scans whose lookup found no duplicate
FreshVerdicts ==
    {r \in Requests : Stored(r) /\
        \A i \in 1..Len(db[r][1].anomalies) :
            db[r][1].anomalies[i].type # "Duplicate Discovery"}

=============================================================================
